---- MODULE Spec2Model ----
(***************************************************************************)
(* go-mochi: the generic authenticated resource pipeline.                  *)
(*                                                                         *)
(* A request travels  AuthRequired -> [ItemContextMiddleware ->            *)
(* UserAccessMiddleware ->] handler -> service -> repository -> dbService. *)
(* Every middleware and every handler is one action; a request in flight   *)
(* is a record holding its context chain, the responses rendered so far    *)
(* and the stage that runs next.                                           *)
(***************************************************************************)
EXTENDS Integers, Sequences, FiniteSets, TLC

(***************************************************************************)
(* Bounds of the model.                                                    *)
(***************************************************************************)
\* Requests that may be in flight at the same time.
MaxReq == 2
\* Rows the table's id sequence hands out before Create stops being driven.
MaxID == 2
\* The same, when requests are served concurrently.
ConcIDs == 1
\* Width, in bits, of the unsigned id type (Go's uint, scaled down).
UintBits == 4

(***************************************************************************)
(* Users known to the external UserService, and one id that is not.        *)
(***************************************************************************)
Users == {1, 2}
UnknownUser == Cardinality(Users) + 1
Names == {"a", "b"}

(***************************************************************************)
(* Response codes.  render.Status(r, http.StatusCreated), render.NoContent *)
(* and the default status of render.Render are net/http's; the Err*        *)
(* renderers are the repository's error responses.                         *)
(***************************************************************************)
StatusOK == 200
StatusCreated == 201
StatusNoContent == 204
ErrInvalidRequest == 400
ErrUnauthorized == 401
ErrNotFound == 404
ErrUnknown == 500

(***************************************************************************)
(* Values a request context can hold.  A context is the chain built by     *)
(* context.WithValue: a sequence of bindings, the latest binding of a key  *)
(* wins.  Keys are (type, value) pairs, as Go compares them.               *)
(***************************************************************************)
Nil == [t |-> "nil"]
UserVal(u) == [t |-> "User", ID |-> u]
ItemVal(row) == [t |-> "M", row |-> row]

userContextKey == <<"authContextkey", 0>>
\* Mutant: the entity keys have the type of the user key.
ResourceContextKey_AuthType(k) == <<"authContextkey", k>>

ResourceContextKey(k) == <<"ResourceContextKey", k>>

\* Mutant: the value is bound in context.Background(), not in the context
\* of the request.
WithValue_Background(ctx, key, val) == <<[key |-> key, val |-> val]>>

WithValue(ctx, key, val) == Append(ctx, [key |-> key, val |-> val])

RECURSIVE Value(_, _)
Value(ctx, key) ==
    IF ctx = <<>> THEN Nil
    ELSE IF ctx[Len(ctx)].key = key THEN ctx[Len(ctx)].val
    ELSE Value(SubSeq(ctx, 1, Len(ctx) - 1), key)

(***************************************************************************)
(* Time is counted in ticks; jwt.NewNumericDate truncates a time to        *)
(* jwt.TimePrecision (one second) before the validator compares it.        *)
(***************************************************************************)
\* Ticks in one second.
TicksPerSecond == 2
TokenExpirationTime == 24 * 3600 * TicksPerSecond
NewNumericDate(t) == t - (t % TicksPerSecond)

(***************************************************************************)
(* Claims and tokens.  A signed token is its claims, the algorithm named   *)
(* in its header and the key its signature was made with.                  *)
(***************************************************************************)
SigningMethodHS256 == "HS256"

NewClaims(user, now) ==
    [Sub |-> user, Exp |-> now + TokenExpirationTime, Iat |-> now, Nbf |-> now]

generateUserToken(secret, user, now) ==
    [claims |-> NewClaims(user, now), alg |-> SigningMethodHS256, key |-> secret]

(***************************************************************************)
(* Header values are strings: sequences of characters, in which a token    *)
(* string is one opaque element.                                           *)
(***************************************************************************)
Ch(c) == [k |-> "ch", v |-> c]
Tok(token) == [k |-> "tok", v |-> token]
Chars(s) == [i \in DOMAIN s |-> Ch(s[i])]
BearerPrefix == Chars(<<"B", "e", "a", "r", "e", "r", " ">>)

\* authHeader[len("Bearer "):] -- a slice expression: it panics when the
\* header is shorter than the prefix and checks nothing about the prefix.
getTokenStringFromAuthHeader(authHeader) ==
    IF authHeader = <<>> THEN [err |-> "missing auth header", panic |-> FALSE, tokenString |-> <<>>]
    ELSE IF Len(authHeader) < Len(BearerPrefix)
         THEN [err |-> "", panic |-> TRUE, tokenString |-> <<>>]
         ELSE [err |-> "", panic |-> FALSE,
               tokenString |-> SubSeq(authHeader, Len(BearerPrefix) + 1, Len(authHeader))]

\* jwt.ParseWithClaims with WithValidMethods({HS256}) and the key function
\* returning the signing secret; the claims validator checks exp and nbf
\* against the current time (iat is not checked without WithIssuedAt).
validateUserToken(secret, tokenString, now) ==
    IF Len(tokenString) # 1 \/ tokenString[1].k # "tok"
    THEN [err |-> "failed to parse token", claims |-> Nil]
    ELSE LET token == tokenString[1].v IN
         IF token.alg # SigningMethodHS256
         THEN [err |-> "failed to parse token", claims |-> Nil]
         ELSE IF token.key # secret
         THEN [err |-> "failed to parse token", claims |-> Nil]
         ELSE IF ~(now < NewNumericDate(token.claims.Exp))
         THEN [err |-> "failed to parse token", claims |-> Nil]
         ELSE IF now < NewNumericDate(token.claims.Nbf)
         THEN [err |-> "failed to parse token", claims |-> Nil]
         ELSE [err |-> "", claims |-> token.claims]

\* The external UserService: a lookup of an id it does not know fails and
\* returns no user.
GetUserByID(userID) ==
    IF userID \in Users THEN [err |-> "", user |-> UserVal(userID)]
    ELSE [err |-> "user not found", user |-> Nil]

\* ctx.Value(userContextKey).(User)
GetUserFromCtx(ctx) ==
    LET v == Value(ctx, userContextKey) IN
    IF v.t = "User" THEN [err |-> "", user |-> v]
    ELSE [err |-> "could not get user from context", user |-> Nil]

(***************************************************************************)
(* Errors.  An error is the chain fmt.Errorf("...: %w", err) builds: the   *)
(* wrapping messages, outermost first, down to the root error.  The empty  *)
(* chain is nil.                                                           *)
(***************************************************************************)
NoErr == <<>>
ErrRecordNotFound == "record not found"
\* Mutant: the error is formatted with %v, which drops the chain.
Wrap_Opaque(msg, err) == <<msg>>
Wrap(msg, err) == <<msg>> \o err
\* Mutant: the error is compared with ==, which does not unwrap.
Is_Equal(err, target) == err = <<target>>
\* errors.Is
Is(err, target) == \E i \in DOMAIN err : err[i] = target

(***************************************************************************)
(* The table.  A row is an entity M: GetID(), GetUserID() and one data     *)
(* field.  The zero value of a field is 0 or "".                           *)
(***************************************************************************)
ZeroItem == [ID |-> 0, UserID |-> 0, Name |-> ""]
GetID(item) == item.ID
GetUserID(item) == item.UserID
ToDTO(item) == [id |-> item.ID, name |-> item.Name]

Uint(n) == n % (2 ^ UintBits)

(***************************************************************************)
(* Filter expressions.  A filter is the text of a WHERE clause: atoms      *)
(* "table.col = ?" joined by AND and OR, with positional arguments.  SQL   *)
(* evaluates AND before OR.                                                *)
(***************************************************************************)
Atom(col) == [op |-> "atom", col |-> col]
AND == [op |-> "AND", col |-> ""]
OR == [op |-> "OR", col |-> ""]

Column(row, col) ==
    CASE col = "id" -> row.ID
      [] col = "user_id" -> row.UserID
      [] col = "name" -> row.Name

\* cur: the conjunction being read; acc: the disjuncts already read.
RECURSIVE EvalWhere(_, _, _, _, _)
EvalWhere(query, args, row, cur, acc) ==
    IF query = <<>> THEN acc \/ cur
    ELSE LET tk == Head(query) IN
         CASE tk.op = "atom" ->
                EvalWhere(Tail(query), Tail(args), row,
                          cur /\ (Column(row, tk.col) = Head(args)), acc)
           [] tk.op = "AND" -> EvalWhere(Tail(query), args, row, cur, acc)
           [] tk.op = "OR" -> EvalWhere(Tail(query), args, row, TRUE, acc \/ cur)

Where(rows, query, args) == {row \in rows : EvalWhere(query, args, row, TRUE, FALSE)}

MinID(rows) == CHOOSE row \in rows : \A other \in rows : row.ID <= other.ID

(***************************************************************************)
(* dbService.  rows is the table, fail says that the storage call errors   *)
(* (connection lost, the one-second session timeout).                      *)
(***************************************************************************)
dbFindOne(rows, query, args, fail) ==
    IF fail THEN [err |-> Wrap("find one failed", <<"db error">>), item |-> ZeroItem]
    ELSE LET found == Where(rows, query, args) IN
         IF found = {} THEN [err |-> <<ErrRecordNotFound>>, item |-> ZeroItem]
         ELSE [err |-> NoErr, item |-> MinID(found)]

dbFindMany(rows, query, args, fail) ==
    IF fail THEN [err |-> Wrap("find many failed", <<"db error">>), items |-> {}]
    ELSE [err |-> NoErr, items |-> Where(rows, query, args)]

\* INSERT: the id comes from the table's sequence.
dbCreateOne(rows, seq, record, fail) ==
    IF fail THEN [err |-> Wrap("create one failed", <<"db error">>), rows |-> rows, item |-> record]
    ELSE LET created == [record EXCEPT !.ID = seq] IN
         [err |-> NoErr, rows |-> rows \cup {created}, item |-> created]

\* Updates(record) writes the non-zero fields of record.
Merge(row, record) ==
    [ID |-> row.ID,
     UserID |-> IF record.UserID # 0 THEN record.UserID ELSE row.UserID,
     Name |-> IF record.Name # "" THEN record.Name ELSE row.Name]

\* UPDATE ... WHERE id = recordID RETURNING *: no row matched is no error,
\* and then record is returned as it was passed.
\* Mutant: the condition on the id is lost and every row is updated.
dbUpdateOne_AllRows(rows, recordID, record, fail) ==
    IF fail THEN [err |-> Wrap("update one failed", <<"db error">>), rows |-> rows, item |-> record]
    ELSE [err |-> NoErr,
          rows |-> {Merge(row, record) : row \in rows},
          item |-> record]

dbUpdateOne(rows, recordID, record, fail) ==
    IF fail THEN [err |-> Wrap("update one failed", <<"db error">>), rows |-> rows, item |-> record]
    ELSE LET hit == {row \in rows : row.ID = recordID} IN
         [err |-> NoErr,
          rows |-> (rows \ hit) \cup {Merge(row, record) : row \in hit},
          item |-> IF hit = {} THEN record ELSE Merge(CHOOSE row \in hit : TRUE, record)]

\* Mutant: the condition on the id is lost and no row is deleted.
dbDeleteOne_NoRow(rows, recordID, fail) ==
    IF fail THEN [err |-> Wrap("delete one failed", <<"db error">>), rows |-> rows]
    ELSE [err |-> NoErr, rows |-> rows]

\* DELETE ... WHERE id = recordID: no row matched is no error.
dbDeleteOne(rows, recordID, fail) ==
    IF fail THEN [err |-> Wrap("delete one failed", <<"db error">>), rows |-> rows]
    ELSE [err |-> NoErr, rows |-> {row \in rows : row.ID # recordID}]

(***************************************************************************)
(* repository                                                              *)
(***************************************************************************)
WrapIf(msg, err) == IF err = NoErr THEN NoErr ELSE Wrap(msg, err)

\* Mutant: the filter is joined with OR.
ComposeQuery_Or(col, query) ==
    IF query # <<>> THEN <<Atom(col)>> \o <<OR>> \o query ELSE <<Atom(col)>>

ComposeQuery(col, query) ==
    IF query # <<>> THEN <<Atom(col)>> \o <<AND>> \o query ELSE <<Atom(col)>>

FindOne(rows, query, args, fail) ==
    LET r == dbFindOne(rows, query, args, fail) IN
    [err |-> WrapIf("failed to find one item", r.err), item |-> r.item]

FindOneByID(rows, itemID, query, args, fail) ==
    FindOne(rows, ComposeQuery("id", query), <<itemID>> \o args, fail)

FindOneByUser(rows, userID, query, args, fail) ==
    LET r == dbFindOne(rows, ComposeQuery("user_id", query), <<userID>> \o args, fail) IN
    [err |-> WrapIf("failed to find one item", r.err), item |-> r.item]

FindManyByUser(rows, userID, query, args, fail) ==
    LET r == dbFindMany(rows, ComposeQuery("user_id", query), <<userID>> \o args, fail) IN
    [err |-> WrapIf("failed to find many items by user", r.err), items |-> r.items]

repoCreateOne(rows, seq, item, fail) ==
    LET r == dbCreateOne(rows, seq, item, fail) IN
    [err |-> WrapIf("failed to create one item", r.err), rows |-> r.rows, item |-> r.item]

repoUpdateOne(rows, itemID, item, fail) ==
    LET r == dbUpdateOne(rows, itemID, item, fail) IN
    [err |-> WrapIf("failed to update one item", r.err), rows |-> r.rows, item |-> r.item]

repoDeleteOne(rows, itemID, fail) ==
    LET r == dbDeleteOne(rows, itemID, fail) IN
    [err |-> WrapIf("failed to delete one item", r.err), rows |-> r.rows]

(***************************************************************************)
(* service.  s is the service: its listQuery and getQuery.                 *)
(***************************************************************************)
ServiceQuery(filter, args) == [Filter |-> filter, Args |-> args]

\* listQuery and getQuery default to &ServiceQuery{}.
NewService(listQuery, getQuery) == [listQuery |-> listQuery, getQuery |-> getQuery]

ListByUser(s, rows, userID, fail) ==
    LET r == FindManyByUser(rows, userID, s.listQuery.Filter, s.listQuery.Args, fail) IN
    [err |-> WrapIf("failed to list user items", r.err), items |-> r.items]

\* Mutant: the repository's error is dropped.
CreateOne_ErrDropped(s, rows, seq, userID, item, fail) ==
    LET r == repoCreateOne(rows, seq, item, fail) IN
    [err |-> NoErr, rows |-> r.rows, item |-> r.item]

\* userID is not used.
CreateOne(s, rows, seq, userID, item, fail) ==
    LET r == repoCreateOne(rows, seq, item, fail) IN
    [err |-> WrapIf("failed to create user task", r.err), rows |-> r.rows, item |-> r.item]

GetOne(s, rows, itemID, fail) ==
    LET r == FindOneByID(rows, itemID, s.getQuery.Filter, s.getQuery.Args, fail) IN
    [err |-> WrapIf("failed to get item", r.err), item |-> r.item]

UpdateOne(s, rows, itemID, item, fail) ==
    LET r == repoUpdateOne(rows, itemID, item, fail) IN
    [err |-> WrapIf("failed to update user task", r.err), rows |-> r.rows, item |-> r.item]

DeleteOne(s, rows, itemID, fail) ==
    LET r == repoDeleteOne(rows, itemID, fail) IN
    [err |-> WrapIf("failed to delete user task", r.err), rows |-> r.rows]

(***************************************************************************)
(* Path parameters are strings of characters; strconv.Atoi accepts an      *)
(* optional sign followed by one or more decimal digits.                   *)
(***************************************************************************)
DigitChars == <<"0", "1", "2", "3", "4", "5", "6", "7", "8", "9">>
IsDigit(c) == \E i \in DOMAIN DigitChars : DigitChars[i] = c
DigitValue(c) == (CHOOSE i \in DOMAIN DigitChars : DigitChars[i] = c) - 1

RECURSIVE ParseDigits(_, _)
ParseDigits(s, acc) ==
    IF s = <<>> THEN acc
    ELSE ParseDigits(Tail(s), acc * 10 + DigitValue(Head(s)))

Atoi(s) ==
    LET signed == s # <<>> /\ Head(s) \in {"+", "-"}
        digits == IF signed THEN Tail(s) ELSE s
    IN  IF digits = <<>> \/ \E i \in DOMAIN digits : ~IsDigit(digits[i])
        THEN [err |-> "invalid syntax", n |-> 0]
        ELSE [err |-> "",
              n |-> IF signed /\ Head(s) = "-" THEN 0 - ParseDigits(digits, 0)
                    ELSE ParseDigits(digits, 0)]

\* The decimal text of a small id, as a client writes it into the path.
FormatUint(n) ==
    IF n < 10 THEN <<DigitChars[n + 1]>>
    ELSE <<DigitChars[(n \div 10) + 1], DigitChars[(n % 10) + 1]>>

(***************************************************************************)
(* Controller                                                              *)
(***************************************************************************)
\* Mutant: the default lets every access through.
defaultUserResourceAccessFunc_Allow(u, item) == NoErr

\* func defaultUserResourceAccessFunc(u User, item M) error
defaultUserResourceAccessFunc(u, item) == <<"user access func not implemented">>

\* The override callers pass to WithUserAccessFunc for per-owner entities.
ownerAccessFunc(u, item) ==
    IF GetUserID(item) = u.ID THEN NoErr ELSE <<"not the owner">>

userAccessFunc(c, u, item) ==
    IF c.userAccessFunc = "default" THEN defaultUserResourceAccessFunc(u, item)
    ELSE ownerAccessFunc(u, item)

\* The two controller types of the repository: Controller (no access
\* function, the owner comparison is written into its middleware) and
\* controller (userAccessFunc, defaultUserResourceAccessFunc unless
\* WithUserAccessFunc is among the options).
NewController(type, opts) ==
    [type |-> type,
     contextKey |-> IF "WithContextKey" \in DOMAIN opts THEN opts["WithContextKey"] ELSE 0,
     userAccessFunc |-> IF "WithUserAccessFunc" \in DOMAIN opts
                        THEN opts["WithUserAccessFunc"] ELSE "default"]

NoOpts == [o \in {} |-> 0]
Opt(name, val) == [o \in {name} |-> val]

\* ctx.Value(c.contextKey).(M)
ItemFromContext(c, ctx) ==
    LET v == Value(ctx, ResourceContextKey(c.contextKey)) IN
    IF v.t = "M" THEN [err |-> "", item |-> v.row]
    ELSE [err |-> "failed to get item from context", item |-> ZeroItem]

ListRoutes == {"List", "Create"}
DetailRoutes == {"Get", "Update", "Delete", "Detail"}
Methods == ListRoutes \cup DetailRoutes

(***************************************************************************)
(* State.                                                                  *)
(***************************************************************************)
VARIABLES
    ctrl,           \* the controller NewController built
    svc,            \* the service NewService built
    signingSecret,  \* AuthService.signingSecret
    rows,           \* the table
    seq,            \* the next id of the table's sequence
    reqs,           \* the requests in flight, by serving task
    cap,            \* the last id the table's sequence hands out in this run
    tracked,        \* history: one entity Create answered 201 for
    deleted,        \* history: ids a Delete answered 204 for
    env,            \* the process environment os.Getenv reads
    app,            \* the fx application: how far its startup got
    out             \* the last direct call of a service and what it returned

vars == <<ctrl, svc, signingSecret, rows, seq, reqs, cap, tracked, deleted, env, app, out>>

IDs == 1 .. MaxID

\* A request: the route it is for, the stage that runs next, its context
\* chain and the responses rendered so far.  The other fields are history,
\* read by the properties only: the stages that ran, the number of service
\* calls, what the request's credentials were (auth), the id the load stage
\* looked up and what the store held for it (load), whether a storage call
\* failed, the ids already deleted when the request arrived, the subject
\* of the token AuthRequired accepted (sub) and the "id" path parameter the
\* load stage read (param).
Idle ==
    [method |-> "", pc |-> "idle", ctx |-> <<>>, resp |-> <<>>, trace |-> <<>>,
     calls |-> 0, auth |-> "", id |-> 0, load |-> "", fault |-> FALSE, after |-> {},
     sub |-> 0, param |-> <<>>]

Response(status, body) == [status |-> status, body |-> body]
Render(req, status, body) == [req EXCEPT !.resp = Append(@, Response(status, body))]
Ran(req, stage) == [req EXCEPT !.trace = Append(@, stage)]
Called(req, fail) == [req EXCEPT !.calls = @ + 1, !.fault = @ \/ fail]
Goto(req, pc) == [req EXCEPT !.pc = pc]
Return(req) == Goto(req, "done")

\* The tracked entity: its id, the user whose Create made it, the DTO that
\* Create answered, and whether no Update or Delete succeeded on it since.
\* Any created entity may be the tracked one.
Untracked == [id |-> 0, by |-> 0, dto |-> ToDTO(ZeroItem), intact |-> FALSE]
Track(user, item) == [id |-> item.ID, by |-> user, dto |-> ToDTO(item), intact |-> TRUE]
Touch(id) == IF tracked.id = id THEN [tracked EXCEPT !.intact = FALSE] ELSE tracked

(***************************************************************************)
(* Inputs.                                                                 *)
(***************************************************************************)
IssueTime == 0
Times == {IssueTime + 1, IssueTime + TokenExpirationTime}

Headers ==
    {<<>>}
    \cup {BearerPrefix \o <<Tok(generateUserToken(signingSecret, u, IssueTime))>> :
             u \in Users \cup {UnknownUser}}
    \cup {BearerPrefix \o <<Tok(generateUserToken("forged", 1, IssueTime))>>}
    \cup {Chars(<<"B", "a", "s", "i", "c">>)}
    \cup {Chars(<<"b", "e", "a", "r", "e", "r", " ">>)
             \o <<Tok(generateUserToken(signingSecret, 1, IssueTime))>>}

IdParams ==
    {<<>>, <<"x">>, <<"-", "1">>} \cup {FormatUint(i) : i \in 1 .. cap}

\* What a request constructor can return: an error, or an entity built
\* from the body (and, in controller, from the user it is handed).
NewItems == [ID : {0}, UserID : {0} \cup Users, Name : Names]
Updates == [ID : {0}, UserID : {0} \cup Users, Name : Names \cup {""}]
Constructed(items) ==
    {[err |-> "bad request", item |-> ZeroItem]} \cup {[err |-> "", item |-> i] : i \in items}

(***************************************************************************)
(* Construction.                                                           *)
(***************************************************************************)
\* The environment: JWT_SIGNING_SECRET and DATABASE_URL, each of which may
\* be unset ("") ; a DATABASE_URL may also name no database that answers.
Env == [JWT_SIGNING_SECRET : {"", "secret"}, DATABASE_URL : {"", "invalid", "postgres"}]
GoodEnv == [JWT_SIGNING_SECRET |-> "secret", DATABASE_URL |-> "postgres"]

\* The application: the constructors fx has run (phase), the error that
\* stopped the startup, and dbService.db.
Starting == [phase |-> "new", err |-> "", db |-> "nil"]
Serving == [phase |-> "serving", err |-> "", db |-> "open"]
NoCall == [op |-> "", in |-> <<>>, res |-> <<>>]

Controllers ==
    {NewController("Controller", NoOpts),
     NewController("controller", NoOpts),
     NewController("controller", Opt("WithUserAccessFunc", "owner"))}

InitWith(n, ids) ==
    /\ ctrl \in Controllers
    /\ svc = NewService(ServiceQuery(<<>>, <<>>), ServiceQuery(<<>>, <<>>))
    /\ signingSecret = "secret"
    /\ rows = {}
    /\ seq = 1
    /\ reqs = [r \in 1 .. n |-> Idle]
    /\ cap = ids
    /\ tracked = Untracked
    /\ deleted = {}
    /\ env = GoodEnv
    /\ app = Serving
    /\ out = NoCall

\* One request is served at a time.
Init == InitWith(1, MaxID)

\* MaxReq requests are served concurrently, over a table of ConcIDs ids, by
\* the controller built with an owner-matching access function.
InitConc ==
    /\ InitWith(MaxReq, ConcIDs)
    /\ ctrl = NewController("controller", Opt("WithUserAccessFunc", "owner"))

Set(r, req) == reqs' = [reqs EXCEPT ![r] = req]
Config == <<ctrl, svc, signingSecret, cap, env, app, out>>
Store == <<rows, seq, tracked, deleted>>

\* Creates accepted and not yet answered.
PendingCreates == Cardinality({r \in DOMAIN reqs : reqs[r].method = "Create" /\ reqs[r].pc = "handler"})

(***************************************************************************)
(* AuthService.AuthRequired: the first middleware of every route.  The     *)
(* request arrives with its route, its Authorization header and the time.  *)
(***************************************************************************)
\* Mutant: the added routes are mounted beside "/{id}", not inside it.
Next1_BuiltinOnly(method) ==
    IF method \in {"Get", "Update", "Delete"} THEN "ItemContextMiddleware" ELSE "handler"

Next1(method) == IF method \in DetailRoutes THEN "ItemContextMiddleware" ELSE "handler"

\* What a request presents: no header, a header that is not "Bearer "
\* and a token, a token validateUserToken rejects, a token whose subject
\* the UserService does not know, or a token of a known user.
Credentials(authHeader, now) ==
    LET n == Len(BearerPrefix)
        tokenString == SubSeq(authHeader, n + 1, Len(authHeader))
        v == validateUserToken(signingSecret, tokenString, now)
    IN  IF authHeader = <<>> THEN "missing"
        ELSE IF Len(authHeader) < n \/ SubSeq(authHeader, 1, n) # BearerPrefix THEN "malformed"
        ELSE IF v.err # "" THEN "invalid"
        ELSE IF GetUserByID(v.claims.Sub).err # "" THEN "lookup"
        ELSE "ok"

\* Mutant: no return after the response to a missing header.
AuthRequiredDo_NoReturn(req, method, authHeader, now) ==
    LET t == getTokenStringFromAuthHeader(authHeader)
        v == validateUserToken(signingSecret, t.tokenString, now)
        start == Ran([req EXCEPT !.method = method, !.after = deleted,
                                 !.auth = Credentials(authHeader, now),
                                 !.sub = IF v.err = "" THEN v.claims.Sub ELSE 0],
                     "AuthRequired")
        l == GetUserByID(v.claims.Sub)
    IN  IF t.panic THEN Goto(start, "panic")
        ELSE IF t.err # "" \/ v.err # "" \/ l.err # ""
        THEN Goto([Render(start, ErrUnauthorized, {}) EXCEPT
                      !.ctx = WithValue(@, userContextKey, Nil)], Next1(method))
        ELSE Goto([start EXCEPT !.ctx = WithValue(@, userContextKey, l.user)], Next1(method))

AuthRequiredDo(req, method, authHeader, now) ==
    LET t == getTokenStringFromAuthHeader(authHeader)
        v == validateUserToken(signingSecret, t.tokenString, now)
        start == Ran([req EXCEPT !.method = method, !.after = deleted,
                                 !.auth = Credentials(authHeader, now),
                                 !.sub = IF v.err = "" THEN v.claims.Sub ELSE 0],
                     "AuthRequired")
        l == GetUserByID(v.claims.Sub)
    IN  IF t.panic THEN Goto(start, "panic")
        ELSE IF t.err # "" THEN Return(Render(start, ErrUnauthorized, {}))
        ELSE IF v.err # "" THEN Return(Render(start, ErrUnauthorized, {}))
        ELSE LET looked == IF l.err # "" THEN Render(start, ErrUnauthorized, {}) ELSE start
             IN  Goto([looked EXCEPT !.ctx = WithValue(@, userContextKey, l.user)],
                      Next1(method))

AuthRequired(r) ==
    /\ reqs[r].pc = "idle"
    /\ \E method \in Methods, authHeader \in Headers, now \in Times :
          /\ method = "Create" => seq + PendingCreates <= cap
          /\ Set(r, AuthRequiredDo(reqs[r], method, authHeader, now))
    /\ UNCHANGED <<Config, Store>>

(***************************************************************************)
(* controller.ItemContextMiddleware: the load stage.                       *)
(***************************************************************************)
\* What the store holds for a lookup of id: "error" when the storage call
\* fails, "ok" when a row has the id, "notfound" otherwise.
Held(id, fail) ==
    IF fail THEN "error"
    ELSE IF \E row \in rows : row.ID = id THEN "ok"
    ELSE "notfound"

ItemContextMiddlewareDo(req, itemID, fail) ==
    LET start == Ran([req EXCEPT !.param = itemID], "ItemContextMiddleware")
        a == Atoi(itemID)
        g == GetOne(svc, rows, Uint(a.n), fail)
        called == Called([start EXCEPT !.id = Uint(a.n), !.load = Held(Uint(a.n), fail)], fail)
    IN  IF itemID = <<>> THEN Return(Render(start, ErrNotFound, {}))
        ELSE IF a.err # "" THEN Return(Render(start, ErrInvalidRequest, {}))
        ELSE IF g.err # NoErr
        THEN IF Is(g.err, ErrRecordNotFound)
             THEN Return(Render(called, ErrNotFound, {}))
             ELSE Return(Render(called, ErrUnknown, {}))
        ELSE Goto([called EXCEPT
                      !.ctx = WithValue(@, ResourceContextKey(ctrl.contextKey), ItemVal(g.item))],
                  "UserAccessMiddleware")

ItemContextMiddleware(r) ==
    /\ reqs[r].pc = "ItemContextMiddleware"
    /\ \E itemID \in IdParams, fail \in BOOLEAN :
          Set(r, ItemContextMiddlewareDo(reqs[r], itemID, fail))
    /\ UNCHANGED <<Config, Store>>

(***************************************************************************)
(* UserAccessMiddleware: the ownership stage, of Controller and of         *)
(* controller.                                                             *)
(***************************************************************************)
\* Mutant: the entity's id is compared, not its owner's.
ControllerUserAccess_ByID(user, item) ==
    IF GetID(item) # user.ID THEN <<"not found">> ELSE NoErr

ControllerUserAccess(user, item) ==
    IF GetUserID(item) # user.ID THEN <<"not found">> ELSE NoErr

AccessCheck(c, user, item) ==
    IF c.type = "Controller" THEN ControllerUserAccess(user, item)
    ELSE userAccessFunc(c, user, item)

\* Mutant: a failed ownership check is answered Forbidden.
UserAccessMiddlewareDo_Forbidden(req) ==
    LET start == Ran(req, "UserAccessMiddleware")
        u == GetUserFromCtx(req.ctx)
        i == ItemFromContext(ctrl, req.ctx)
        accessErr == AccessCheck(ctrl, u.user, i.item)
    IN  IF u.err # "" THEN Return(Render(start, ErrUnauthorized, {}))
        ELSE IF i.err # "" THEN Return(Render(start, ErrInvalidRequest, {}))
        ELSE IF accessErr # NoErr THEN Return(Render(start, 403, {}))
        ELSE Goto(start, "handler")

UserAccessMiddlewareDo(req) ==
    LET start == Ran(req, "UserAccessMiddleware")
        u == GetUserFromCtx(req.ctx)
        i == ItemFromContext(ctrl, req.ctx)
        accessErr == AccessCheck(ctrl, u.user, i.item)
    IN  IF u.err # "" THEN Return(Render(start, ErrUnauthorized, {}))
        ELSE IF i.err # "" THEN Return(Render(start, ErrInvalidRequest, {}))
        ELSE IF accessErr # NoErr THEN Return(Render(start, ErrNotFound, {}))
        ELSE Goto(start, "handler")

UserAccessMiddleware(r) ==
    /\ reqs[r].pc = "UserAccessMiddleware"
    /\ Set(r, UserAccessMiddlewareDo(reqs[r]))
    /\ UNCHANGED <<Config, Store>>

(***************************************************************************)
(* The handlers.                                                           *)
(***************************************************************************)
At(r, method) == reqs[r].pc = "handler" /\ reqs[r].method = method

List(r) ==
    /\ At(r, "List")
    /\ \E fail \in BOOLEAN :
          LET start == Ran(reqs[r], "List")
              u == GetUserFromCtx(start.ctx)
              l == ListByUser(svc, rows, u.user.ID, fail)
          IN  Set(r, IF u.err # "" THEN Return(Render(start, ErrUnauthorized, {}))
                     ELSE IF l.err # NoErr
                     THEN Return(Render(Called(start, fail), ErrUnknown, {}))
                     ELSE Return(Render(Called(start, fail), StatusOK,
                                        {ToDTO(item) : item \in l.items})))
    /\ UNCHANGED <<Config, Store>>

Create(r) ==
    /\ At(r, "Create")
    /\ \E n \in Constructed(NewItems), fail \in BOOLEAN :
          LET start == Ran(reqs[r], "Create")
              u == GetUserFromCtx(start.ctx)
              c == CreateOne(svc, rows, seq, u.user.ID, n.item, fail)
          IN  IF u.err # ""
              THEN Set(r, Return(Render(start, ErrUnauthorized, {}))) /\ UNCHANGED Store
              ELSE IF n.err # ""
              THEN Set(r, Return(Render(start, ErrInvalidRequest, {}))) /\ UNCHANGED Store
              ELSE IF c.err # NoErr
              THEN Set(r, Return(Render(Called(start, fail), ErrUnknown, {})))
                   /\ UNCHANGED Store
              ELSE /\ Set(r, Return(Render(Called([start EXCEPT !.id = c.item.ID], fail),
                                           StatusCreated, {ToDTO(c.item)})))
                   /\ rows' = c.rows
                   /\ seq' = seq + 1
                   /\ tracked' \in IF tracked = Untracked
                                    THEN {tracked, Track(u.user.ID, c.item)}
                                    ELSE {tracked}
                   /\ UNCHANGED deleted
    /\ UNCHANGED Config

Get(r) ==
    /\ At(r, "Get")
    /\ LET start == Ran(reqs[r], "Get")
           i == ItemFromContext(ctrl, start.ctx)
       IN  Set(r, IF i.err # "" THEN Return(Render(start, ErrInvalidRequest, {}))
                  ELSE Return(Render(start, StatusOK, {ToDTO(i.item)})))
    /\ UNCHANGED <<Config, Store>>

Update(r) ==
    /\ At(r, "Update")
    /\ \E n \in Constructed(Updates), fail \in BOOLEAN :
          LET start == Ran(reqs[r], "Update")
              i == ItemFromContext(ctrl, start.ctx)
              up == UpdateOne(svc, rows, GetID(i.item), n.item, fail)
          IN  IF i.err # ""
              THEN Set(r, Return(Render(start, ErrInvalidRequest, {}))) /\ UNCHANGED Store
              ELSE IF n.err # ""
              THEN Set(r, Return(Render(start, ErrInvalidRequest, {}))) /\ UNCHANGED Store
              ELSE IF up.err # NoErr
              THEN Set(r, Return(Render(Called(start, fail), ErrUnknown, {})))
                   /\ UNCHANGED Store
              ELSE /\ Set(r, Return(Render(Called(start, fail), StatusOK, {ToDTO(up.item)})))
                   /\ rows' = up.rows
                   /\ tracked' = Touch(GetID(i.item))
                   /\ UNCHANGED <<seq, deleted>>
    /\ UNCHANGED Config

Delete(r) ==
    /\ At(r, "Delete")
    /\ \E fail \in BOOLEAN :
          LET start == Ran(reqs[r], "Delete")
              i == ItemFromContext(ctrl, start.ctx)
              d == DeleteOne(svc, rows, GetID(i.item), fail)
          IN  IF i.err # ""
              THEN Set(r, Return(Render(start, ErrInvalidRequest, {}))) /\ UNCHANGED Store
              ELSE IF d.err # NoErr
              THEN Set(r, Return(Render(Called(start, fail), ErrUnknown, {})))
                   /\ UNCHANGED Store
              ELSE /\ Set(r, Return(Render(Called(start, fail), StatusNoContent, {})))
                   /\ rows' = d.rows
                   /\ tracked' = Touch(GetID(i.item))
                   /\ deleted' = deleted \cup {GetID(i.item)}
                   /\ UNCHANGED seq
    /\ UNCHANGED Config

\* A route added with WithDetailRoute: the handler is the caller's.
Detail(r) ==
    /\ At(r, "Detail")
    /\ Set(r, Return(Render(Ran(reqs[r], "Detail"), StatusOK, {})))
    /\ UNCHANGED <<Config, Store>>

\* The serving task ends: the handler chain returned, or it panicked and
\* net/http recovered.
Finish(r) ==
    /\ reqs[r].pc \in {"done", "panic"}
    /\ Set(r, Idle)
    /\ UNCHANGED <<Config, Store>>

Next ==
    \/ \E r \in DOMAIN reqs : AuthRequired(r)
    \/ \E r \in DOMAIN reqs : ItemContextMiddleware(r)
    \/ \E r \in DOMAIN reqs : UserAccessMiddleware(r)
    \/ \E r \in DOMAIN reqs : List(r)
    \/ \E r \in DOMAIN reqs : Create(r)
    \/ \E r \in DOMAIN reqs : Get(r)
    \/ \E r \in DOMAIN reqs : Update(r)
    \/ \E r \in DOMAIN reqs : Delete(r)
    \/ \E r \in DOMAIN reqs : Detail(r)
    \/ \E r \in DOMAIN reqs : Finish(r)

Spec == Init /\ [][Next]_vars

SpecConc == InitConc /\ [][Next]_vars

(***************************************************************************)
(* Startup.  fx runs the constructors and then the server's OnStart hook;  *)
(* a constructor that returns an error stops the startup.                  *)
(***************************************************************************)
\* NewAuthService: os.Getenv("JWT_SIGNING_SECRET") is stored as it is and
\* the error returned is nil.
NewAuthService(e) == [signingSecret |-> e.JWT_SIGNING_SECRET, err |-> ""]

\* gorm.Open connects to (pings) the database DATABASE_URL names.
Open(dbUrl) ==
    IF dbUrl = "postgres" THEN [db |-> "open", err |-> ""]
    ELSE [db |-> "nil", err |-> "failed to connect"]

\* dbService.Init: srv.db is set only when gorm.Open succeeded.
dbInit(e) == Open(e.DATABASE_URL)

\* NewDBService: srv.Init() is called and its error is dropped.
NewDBService(e) == [db |-> dbInit(e).db, err |-> ""]

Provide(phase, err) == IF err # "" THEN "failed" ELSE phase

StartAuthService ==
    /\ app.phase = "new"
    /\ LET a == NewAuthService(env) IN
          /\ signingSecret' = a.signingSecret
          /\ app' = [app EXCEPT !.phase = Provide("auth", a.err), !.err = a.err]
    /\ UNCHANGED <<ctrl, svc, cap, env, out, Store, reqs>>

StartDBService ==
    /\ app.phase = "auth"
    /\ LET d == NewDBService(env) IN
          app' = [app EXCEPT !.phase = Provide("db", d.err), !.err = d.err, !.db = d.db]
    /\ UNCHANGED <<ctrl, svc, signingSecret, cap, env, out, Store, reqs>>

\* NewServer's OnStart hook: the listener is opened and srv.Serve runs.
OnStart ==
    /\ app.phase = "db"
    /\ app' = [app EXCEPT !.phase = "serving"]
    /\ UNCHANGED <<ctrl, svc, signingSecret, cap, env, out, Store, reqs>>

(***************************************************************************)
(* The AuthService, called directly once the application serves.           *)
(***************************************************************************)
\* Instants of time around the issue of a token and around its expiry:
\* Horizon ticks on from each.
Horizon == 4
Instants == (0 .. Horizon) \cup (TokenExpirationTime .. TokenExpirationTime + Horizon)

\* Tokens a client can present: any claims, signed with any algorithm and
\* any key.
Algs == {SigningMethodHS256, "HS384", "none"}
Keys == {"secret", "forged", ""}
Tokens ==
    [claims : [Sub : {1}, Exp : Instants, Iat : {0}, Nbf : 0 .. Horizon],
     alg : Algs, key : Keys]

\* One call is made at a time: it is made, out holds what it returned, and
\* the caller goes on.
Ready == app.phase = "serving" /\ out = NoCall
Call(op, in, res) == out' = [op |-> op, in |-> in, res |-> res]
Rest == <<ctrl, svc, signingSecret, cap, env, app, Store, reqs>>

Returned ==
    /\ out # NoCall
    /\ out' = NoCall
    /\ UNCHANGED Rest

ValidateUserToken ==
    /\ Ready
    /\ \E token \in Tokens, now \in Instants :
          Call("validateUserToken", [token |-> token, now |-> now],
               validateUserToken(signingSecret, <<Tok(token)>>, now))
    /\ UNCHANGED Rest

\* The users whose Admin() is true.
Admins == {1}
Admin(user) == user.ID \in Admins

\* Mutant: the user's Admin() is not consulted.
AdminRequiredDo_AnyUser(req) ==
    LET start == Ran(req, "AdminRequired")
        u == GetUserFromCtx(req.ctx)
    IN  IF u.err # "" THEN Return(Render(start, ErrUnauthorized, {}))
        ELSE Goto(start, "handler")

AdminRequiredDo(req) ==
    LET start == Ran(req, "AdminRequired")
        u == GetUserFromCtx(req.ctx)
    IN  IF u.err # "" THEN Return(Render(start, ErrUnauthorized, {}))
        ELSE IF ~Admin(u.user) THEN Return(Render(start, ErrUnauthorized, {}))
        ELSE Goto(start, "handler")

\* The requests that reach a middleware mounted behind AuthRequired, and
\* the request that reaches it when AuthRequired is not mounted.
BehindAuthRequired ==
    {Idle} \cup
    {req \in {AuthRequiredDo(Idle, "List", authHeader, now) :
                 authHeader \in Headers, now \in Times} : req.pc = "handler"}

AdminRequired ==
    /\ Ready
    /\ \E req \in BehindAuthRequired : Call("AdminRequired", req, AdminRequiredDo(req))
    /\ UNCHANGED Rest

\* The external UserService's accounts: GetUserByCredentials returns the
\* user whose name and password are given, and an error when there is none.
Accounts ==
    {[user |-> 1, username |-> "alice", password |-> "pw1"],
     [user |-> 2, username |-> "bob", password |-> "pw2"]}
Usernames == {"alice", "bob", "eve"}
Passwords == {"pw1", "pw2", ""}

GetUserByCredentials(username, password) ==
    LET hit == {a \in Accounts : a.username = username /\ a.password = password} IN
    IF hit = {} THEN [err |-> <<"invalid credentials">>, user |-> Nil]
    ELSE [err |-> NoErr, user |-> UserVal((CHOOSE a \in hit : TRUE).user)]

\* Mutant: the token is made before the error is looked at, and returned
\* with the error.
LoginUser_TokenFirst(secret, username, password, now) ==
    LET u == GetUserByCredentials(username, password)
        id == IF u.err = NoErr THEN u.user.ID ELSE 0
    IN  [token |-> <<Tok(generateUserToken(secret, id, now))>>,
         err |-> WrapIf("failed to get user by credentials", u.err)]

\* The empty string is the empty sequence; HMAC signing with a []byte key
\* returns no error.
LoginUser(secret, username, password, now) ==
    LET u == GetUserByCredentials(username, password) IN
    IF u.err # NoErr
    THEN [token |-> <<>>, err |-> Wrap("failed to get user by credentials", u.err)]
    ELSE [token |-> <<Tok(generateUserToken(secret, u.user.ID, now))>>, err |-> NoErr]

Login ==
    /\ Ready
    /\ \E username \in Usernames, password \in Passwords, now \in 0 .. Horizon :
          Call("LoginUser", [username |-> username, password |-> password, now |-> now],
               LoginUser(signingSecret, username, password, now))
    /\ UNCHANGED Rest

\* issueToken: generateUserToken for a user, at the time NewClaims reads.
GenerateUserToken ==
    /\ Ready
    /\ \E user \in Users, now \in 0 .. Horizon :
          Call("generateUserToken", [user |-> user, now |-> now],
               generateUserToken(signingSecret, user, now))
    /\ UNCHANGED Rest

InitAuth ==
    /\ ctrl = NewController("controller", NoOpts)
    /\ svc = NewService(ServiceQuery(<<>>, <<>>), ServiceQuery(<<>>, <<>>))
    /\ signingSecret = ""
    /\ rows = {}
    /\ seq = 1
    /\ reqs = [r \in 1 .. 1 |-> Idle]
    /\ cap = 0
    /\ tracked = Untracked
    /\ deleted = {}
    /\ env \in Env
    /\ app = Starting
    /\ out = NoCall

NextAuth ==
    \/ StartAuthService
    \/ StartDBService
    \/ OnStart
    \/ ValidateUserToken
    \/ GenerateUserToken
    \/ AdminRequired
    \/ Login
    \/ Returned

SpecAuth == InitAuth /\ [][NextAuth]_vars

(***************************************************************************)
(* The Repository and the Service, called directly over a table that holds *)
(* rows of several users, with the filters a caller can configure.         *)
(***************************************************************************)
\* The tables: sets of rows in which no two rows have the same id.
Tables ==
    {t \in SUBSET [ID : IDs, UserID : Users, Name : Names] :
        \A a, b \in t : a.ID = b.ID => a = b}

\* Filters passed to WithListQuery / WithGetQuery or to the repository:
\* none, "name = ?", "name = ? AND name = ?" and "name = ? OR name = ?".
Filters ==
    {ServiceQuery(<<>>, <<>>),
     ServiceQuery(<<Atom("name")>>, <<"a">>),
     ServiceQuery(<<Atom("name"), AND, Atom("name")>>, <<"a", "b">>),
     ServiceQuery(<<Atom("name"), OR, Atom("name")>>, <<"a", "b">>)}

\* The rows a filter selects when it is evaluated by itself.
Satisfies(row, q) == EvalWhere(q.Filter, q.Args, row, TRUE, FALSE)

RepoFindManyByUser ==
    /\ Ready
    /\ \E userID \in Users, q \in Filters, fail \in BOOLEAN :
          Call("FindManyByUser", [userID |-> userID, q |-> q, fail |-> fail],
               FindManyByUser(rows, userID, q.Filter, q.Args, fail))
    /\ UNCHANGED Rest

RepoFindOneByUser ==
    /\ Ready
    /\ \E userID \in Users, q \in Filters, fail \in BOOLEAN :
          Call("FindOneByUser", [userID |-> userID, q |-> q, fail |-> fail],
               FindOneByUser(rows, userID, q.Filter, q.Args, fail))
    /\ UNCHANGED Rest

RepoFindOneByID ==
    /\ Ready
    /\ \E itemID \in IDs, q \in Filters, fail \in BOOLEAN :
          Call("FindOneByID", [itemID |-> itemID, q |-> q, fail |-> fail],
               FindOneByID(rows, itemID, q.Filter, q.Args, fail))
    /\ UNCHANGED Rest

SvcListByUser ==
    /\ Ready
    /\ \E userID \in Users, fail \in BOOLEAN :
          Call("ListByUser", [userID |-> userID, q |-> svc.listQuery, fail |-> fail],
               ListByUser(svc, rows, userID, fail))
    /\ UNCHANGED Rest

SvcGetOne ==
    /\ Ready
    /\ \E itemID \in IDs, fail \in BOOLEAN :
          Call("GetOne", [itemID |-> itemID, q |-> svc.getQuery, fail |-> fail],
               GetOne(svc, rows, itemID, fail))
    /\ UNCHANGED Rest

InitRepo ==
    /\ ctrl = NewController("controller", NoOpts)
    /\ svc \in {NewService(l, g) : l \in Filters, g \in Filters}
    /\ signingSecret = "secret"
    /\ rows \in Tables
    /\ seq = MaxID + 1
    /\ reqs = [r \in 1 .. 1 |-> Idle]
    /\ cap = MaxID
    /\ tracked = Untracked
    /\ deleted = {}
    /\ env = GoodEnv
    /\ app = Serving
    /\ out = NoCall

NextRepo ==
    \/ RepoFindManyByUser
    \/ RepoFindOneByUser
    \/ RepoFindOneByID
    \/ SvcListByUser
    \/ SvcGetOne
    \/ Returned

SpecRepo == InitRepo /\ [][NextRepo]_vars

(***************************************************************************)
(* The Store's sessions.  Every operation of dbService starts with         *)
(*     sesh, cancel := srv.GetSession(ctx); defer cancel()                 *)
(* runs its statement on the session and returns.  A running operation is  *)
(* a frame: where it is, the timed scopes open, the calls deferred, and    *)
(* the error it returns.                                                   *)
(***************************************************************************)
QueryTimeout == TicksPerSecond

StoreOps ==
    {"CreateOne", "UpdateOne", "DEPUpdateOne", "DeleteOne", "FindOne", "FindMany", "DropAll"}

\* The message each operation wraps the session's error with.
StoreMessage(op) ==
    CASE op = "CreateOne" -> "create one failed"
      [] op \in {"UpdateOne", "DEPUpdateOne"} -> "update one failed"
      [] op = "DeleteOne" -> "delete one failed"
      [] op = "FindOne" -> "find one failed"
      [] op = "FindMany" -> "find many failed"
      [] op = "DropAll" -> "drop all failed"

\* context.WithTimeout(ctx, QueryTimeout) opens the scope; srv.db.Session
\* dereferences srv.db, which is nil when Init failed, before the scope's
\* cancel is handed to anybody.
GetSession(db, ctx) ==
    [scope |-> [parent |-> ctx, timeout |-> QueryTimeout], panic |-> db = "nil"]

\* sesh, cancel := srv.GetSession(ctx); defer cancel()
Enter(db, ctx) ==
    LET g == GetSession(db, ctx) IN
    [pc |-> IF g.panic THEN "panic" ELSE "body",
     scopes |-> {g.scope},
     defers |-> IF g.panic THEN <<>> ELSE <<g.scope>>,
     err |-> NoErr]

\* The statement on the session: its error, if any, is wrapped and returned.
Body(op, frame, fail) ==
    [frame EXCEPT !.pc = "exit",
                  !.err = IF fail THEN Wrap(StoreMessage(op), <<"db error">>) ELSE NoErr]

\* Mutant: cancel is called at the end of the operation, not deferred, so
\* the returns on errors skip it.
RunDeferred_AtEnd(frame) ==
    [frame EXCEPT !.pc = "returned",
                  !.scopes = IF frame.err = NoErr
                             THEN @ \ {frame.defers[i] : i \in DOMAIN frame.defers} ELSE @,
                  !.defers = <<>>]

\* The function returns: the deferred calls run, on every return.
RunDeferred(frame) ==
    [frame EXCEPT !.pc = "returned",
                  !.scopes = @ \ {frame.defers[i] : i \in DOMAIN frame.defers},
                  !.defers = <<>>]

\* The contexts a Store operation is called with: those of the requests
\* that reach a handler.
RequestContexts == {req.ctx : req \in BehindAuthRequired}

StoreEnter ==
    /\ Ready
    /\ \E op \in StoreOps, ctx \in RequestContexts :
          Call(op, [ctx |-> ctx], Enter(app.db, ctx))
    /\ UNCHANGED Rest

StoreBody ==
    /\ out.op \in StoreOps
    /\ out.res.pc = "body"
    /\ \E fail \in BOOLEAN : out' = [out EXCEPT !.res = Body(out.op, @, fail)]
    /\ UNCHANGED Rest

StoreReturn ==
    /\ out.op \in StoreOps
    /\ out.res.pc = "exit"
    /\ out' = [out EXCEPT !.res = RunDeferred(@)]
    /\ UNCHANGED Rest

\* The caller goes on, after the return or (net/http recovering) the panic.
StoreDone ==
    /\ out.op \in StoreOps
    /\ out.res.pc \in {"returned", "panic"}
    /\ out' = NoCall
    /\ UNCHANGED Rest

\* The application as its startup leaves it, whatever the environment.
InitStore ==
    /\ ctrl = NewController("controller", NoOpts)
    /\ svc = NewService(ServiceQuery(<<>>, <<>>), ServiceQuery(<<>>, <<>>))
    /\ env \in Env
    /\ signingSecret = NewAuthService(env).signingSecret
    /\ rows = {}
    /\ seq = 1
    /\ reqs = [r \in 1 .. 1 |-> Idle]
    /\ cap = 0
    /\ tracked = Untracked
    /\ deleted = {}
    /\ app = [phase |-> "serving", err |-> "", db |-> NewDBService(env).db]
    /\ out = NoCall

NextStore ==
    \/ StoreEnter
    \/ StoreBody
    \/ StoreReturn
    \/ StoreDone

SpecStore == InitStore /\ [][NextStore]_vars

(***************************************************************************)
(* Two controllers on one request.  A request that AuthRequired let        *)
(* through runs the load stage of one controller and then the load stage   *)
(* of a second one (a resource nested in another); each controller was     *)
(* built with WithContextKey.  out holds the request: the two controllers, *)
(* its context and the entities the load stages stored.                    *)
(***************************************************************************)
MaxKey == 2
ContextKeys == 0 .. MaxKey

NestedArrive ==
    /\ Ready
    /\ \E u \in Users, ka \in ContextKeys, kb \in ContextKeys :
          Call("Nested",
               [user |-> u,
                ctrls |-> <<NewController("controller", Opt("WithContextKey", ka)),
                            NewController("controller", Opt("WithContextKey", kb))>>],
               [pc |-> "load",
                ctx |-> WithValue(<<>>, userContextKey, UserVal(u)),
                stored |-> <<>>])
    /\ UNCHANGED Rest

\* The load stage of the next controller: ItemContextMiddleware.
NestedLoad ==
    /\ out.op = "Nested"
    /\ out.res.pc = "load"
    /\ \E itemID \in IDs, fail \in BOOLEAN :
          LET c == out.in.ctrls[Len(out.res.stored) + 1]
              g == GetOne(svc, rows, itemID, fail)
              stored == Append(out.res.stored, g.item)
          IN  out' = [out EXCEPT !.res =
                        IF g.err # NoErr THEN [@ EXCEPT !.pc = "done"]
                        ELSE [pc |-> IF Len(stored) = Len(out.in.ctrls) THEN "handler" ELSE "load",
                              ctx |-> WithValue(@.ctx, ResourceContextKey(c.contextKey),
                                                ItemVal(g.item)),
                              stored |-> stored]]
    /\ UNCHANGED Rest

InitNested ==
    /\ ctrl = NewController("controller", NoOpts)
    /\ svc = NewService(ServiceQuery(<<>>, <<>>), ServiceQuery(<<>>, <<>>))
    /\ signingSecret = "secret"
    /\ rows \in Tables
    /\ seq = MaxID + 1
    /\ reqs = [r \in 1 .. 1 |-> Idle]
    /\ cap = MaxID
    /\ tracked = Untracked
    /\ deleted = {}
    /\ env = GoodEnv
    /\ app = Serving
    /\ out = NoCall

NextNested ==
    \/ NestedArrive
    \/ NestedLoad
    \/ Returned

SpecNested == InitNested /\ [][NextNested]_vars

(***************************************************************************)
(* Properties.                                                             *)
(***************************************************************************)
Req == {reqs[r] : r \in DOMAIN reqs}
Handlers == Methods
Stages(req) == {req.trace[i] : i \in DOMAIN req.trace}
HandlerRan(req) == Stages(req) \cap Handlers # {}
Authenticated(req) == GetUserFromCtx(req.ctx).err = ""
Caller(req) == GetUserFromCtx(req.ctx).user.ID
Loaded(req) == ItemFromContext(ctrl, req.ctx).item
Only(status, body) == <<Response(status, body)>>

\* C3: when the Authorization header is missing, when validateUserToken
\* rejects the token, and when the user lookup for the token's subject
\* fails, AuthRequired answers Unauthorized and nothing after it runs; what
\* runs after AuthRequired runs with a resolved User in its context.
C3_AuthStopsEveryFailure ==
    \A req \in Req :
        /\ req.auth \in {"missing", "invalid", "lookup"} =>
              /\ req.resp = Only(ErrUnauthorized, {})
              /\ req.trace = <<"AuthRequired">>
              /\ req.pc = "done"
        /\ req.pc \in {"ItemContextMiddleware", "UserAccessMiddleware", "handler"}
              => Authenticated(req)

\* C4: a request to Get, Update, Delete or an extension route that carries
\* no Authorization header is answered 401 by AuthRequired, and no service
\* or repository operation is invoked while it is handled.
C4_NoHeaderNoStorage ==
    \A req \in Req :
        req.auth = "missing" /\ req.method \in DetailRoutes =>
            /\ req.resp = Only(ErrUnauthorized, {})
            /\ req.calls = 0
            /\ req.trace = <<"AuthRequired">>
            /\ req.pc = "done"

C4_Witness ==
    \E req \in Req :
        /\ req.auth = "missing"
        /\ req.method \in DetailRoutes
        /\ req.pc = "done"
        /\ rows # {}

Last(seq_) == seq_[Len(seq_)]
IsPrefix(p, q) == Len(p) <= Len(q) /\ SubSeq(q, 1, Len(p)) = p
Chain(method) == <<"AuthRequired", "ItemContextMiddleware", "UserAccessMiddleware", method>>
HasItem(req) == ItemFromContext(ctrl, req.ctx).err = ""
Denied(req) == AccessCheck(ctrl, GetUserFromCtx(req.ctx).user, Loaded(req)) # NoErr

\* C9: for Get, Update and Delete the stages run in the order
\* authentication, load, ownership, handler; the handler runs only with a
\* User attached, the entity stored and the ownership check passed; and a
\* stage that fails writes the response and ends the request, so that no
\* later stage and no handler runs.
C9_OrderedShortCircuit ==
    \A req \in Req :
        req.method \in {"Get", "Update", "Delete"} =>
            /\ IsPrefix(req.trace, Chain(req.method))
            /\ req.method \in Stages(req) =>
                  Authenticated(req) /\ HasItem(req) /\ ~Denied(req)
            /\ req.resp # <<>> => req.pc = "done" /\ Len(req.resp) = 1

\* C10: the load stage answers NotFound and ends the request when the
\* lookup reports not-found, answers InternalError and ends the request when
\* the lookup reports another error, and only when the lookup succeeds
\* stores the loaded entity in the context and calls the next stage.
C10_LoadStageOutcomes ==
    \A req \in Req :
        /\ req.load = "notfound" =>
              /\ Last(req.resp) = Response(ErrNotFound, {})
              /\ Last(req.trace) = "ItemContextMiddleware"
              /\ req.pc = "done" /\ ~HasItem(req)
        /\ req.load = "error" =>
              /\ Last(req.resp) = Response(ErrUnknown, {})
              /\ Last(req.trace) = "ItemContextMiddleware"
              /\ req.pc = "done" /\ ~HasItem(req)
        /\ req.load = "ok" =>
              /\ HasItem(req) /\ GetID(Loaded(req)) = req.id
              /\ "UserAccessMiddleware" \in Stages(req) \/ req.pc = "UserAccessMiddleware"
        /\ HasItem(req) => req.load = "ok"

C10_Witness ==
    \E req \in Req :
        /\ req.load = "notfound"
        /\ req.pc = "done"
        /\ req.auth = "ok"
        /\ rows # {}

\* C5: to an authenticated caller, Get, Update and Delete answer the same
\* whether the id denotes no stored entity or an entity that fails the
\* ownership check: in both cases the one response is NotFound with the
\* same body, never Forbidden or another status.
C5_NotFoundForAbsentAndUnowned ==
    \A req \in Req :
        /\ req.method \in {"Get", "Update", "Delete"}
        /\ req.auth = "ok"
        /\ req.pc = "done"
        /\ req.load = "notfound" \/ (req.load = "ok" /\ Denied(req))
        => req.resp = Only(ErrNotFound, {})

C5_Witness ==
    \E req \in Req :
        /\ req.method \in {"Get", "Update", "Delete"}
        /\ req.auth = "ok"
        /\ req.pc = "done"
        /\ req.load = "ok"
        /\ GetUserID(Loaded(req)) \in Users \ {Caller(req)}
        /\ ctrl.userAccessFunc = "owner"

Passed(req) == req.pc = "handler" \/ HandlerRan(req)
Checked(req) ==
    "UserAccessMiddleware" \in Stages(req) /\ Authenticated(req) /\ HasItem(req)
Rejected(req) ==
    /\ Last(req.trace) = "UserAccessMiddleware"
    /\ req.resp = Only(ErrNotFound, {})
    /\ req.pc = "done"

\* C6 as stated: a controller built without an ownership-check override
\* passes a request to the next handler exactly when the entity's
\* GetUserID() equals the authenticated user's id, and answers NotFound
\* otherwise.
C6_DefaultIsOwnerMatching ==
    \A req \in Req :
        ctrl.userAccessFunc = "default" /\ Checked(req) =>
            IF GetUserID(Loaded(req)) = Caller(req) THEN Passed(req) ELSE Rejected(req)

\* C6 as amended: built without an override, the type Controller (which
\* has no access function to override) passes a request exactly when the
\* entity's GetUserID() equals the authenticated user's id and answers
\* NotFound otherwise, and the type controller answers NotFound to every
\* request.
C6_OwnerMatchingOnlyInController ==
    \A req \in Req :
        ctrl.userAccessFunc = "default" /\ Checked(req) =>
            IF ctrl.type = "Controller" /\ GetUserID(Loaded(req)) = Caller(req)
            THEN Passed(req) ELSE Rejected(req)

C6_Witness ==
    \E req \in Req :
        /\ ctrl.type = "Controller"
        /\ Checked(req)
        /\ GetUserID(Loaded(req)) = Caller(req)
        /\ req.pc = "handler"

\* C7: a controller whose ownership-check function is left unconfigured
\* never lets a request through the ownership stage: for no user and no
\* entity does a Get, Update, Delete or extension handler run, and the
\* ownership stage answers NotFound.
C7_UnconfiguredFailsClosed ==
    ctrl.type = "controller" /\ ctrl.userAccessFunc = "default" =>
        \A req \in Req :
            req.method \in DetailRoutes =>
                /\ ~Passed(req)
                /\ Checked(req) => Rejected(req)

C7_Witness ==
    \E req \in Req :
        /\ ctrl.type = "controller" /\ ctrl.userAccessFunc = "default"
        /\ Checked(req)
        /\ GetUserID(Loaded(req)) = Caller(req)
        /\ req.pc = "done"

\* C1: an entity created by one user is never in the result of another
\* user's List, and the other user's Get, Update and Delete on its id are
\* answered NotFound without their handler running.
C1_Isolation ==
    \A req \in Req :
        /\ tracked.id # 0
        /\ req.auth = "ok" /\ req.pc = "done" /\ ~req.fault
        /\ Caller(req) # tracked.by
        => /\ req.method = "List" => \A d \in Last(req.resp).body : d.id # tracked.id
           /\ req.method \in {"Get", "Update", "Delete"} /\ req.load # "" /\ req.id = tracked.id
                 => req.resp = Only(ErrNotFound, {}) /\ ~HandlerRan(req)

\* C2: a Get by the creating user on the id Create returned, with no Update
\* or Delete in between, succeeds and returns the fields Create returned
\* (here for a controller whose ownership check is owner matching, and a
\* lookup the storage does not fail).
C2_RoundTrip ==
    \A req \in Req :
        /\ req.method = "Get" /\ req.auth = "ok" /\ req.pc = "done"
        /\ tracked.intact /\ Caller(req) = tracked.by
        /\ req.load = "ok" /\ req.id = tracked.id
        /\ ctrl.type = "Controller" \/ ctrl.userAccessFunc = "owner"
        => req.resp = Only(StatusOK, {tracked.dto})

\* C8: once a Delete on an id was answered 204, every Get on that id that
\* arrives afterwards from an authenticated user is answered NotFound
\* (InternalError when the lookup itself fails in the storage), whatever
\* requests are served in between or concurrently.
C8_DeletedStaysNotFound ==
    \A req \in Req :
        /\ req.method = "Get" /\ req.auth = "ok" /\ req.pc = "done"
        /\ req.load # "" /\ req.id \in req.after
        => req.resp = Only(IF req.fault THEN ErrUnknown ELSE ErrNotFound, {})

C8_Witness ==
    \E req \in Req :
        /\ req.method = "Get" /\ req.auth = "ok" /\ req.pc = "done"
        /\ req.load = "notfound" /\ req.id \in req.after
        /\ req.resp = Only(ErrNotFound, {})

(***************************************************************************)
(* Tokens.                                                                 *)
(***************************************************************************)
Accepted == out.res.err = ""

\* C11: validateUserToken rejects every token whose expiresAt is not
\* strictly after the current time, every token whose notBefore is after
\* the current time, and every token signed with another algorithm or
\* another secret; a token it accepts has notBefore <= now < expiresAt and
\* a valid signature.
C11_ValidityWindow ==
    out.op = "validateUserToken" =>
        LET token == out.in.token
            now == out.in.now
        IN  /\ ~(now < token.claims.Exp) => ~Accepted
            /\ now < token.claims.Nbf => ~Accepted
            /\ token.alg # SigningMethodHS256 \/ token.key # signingSecret => ~Accepted
            /\ Accepted =>
                  /\ token.claims.Nbf <= now /\ now < token.claims.Exp
                  /\ token.alg = SigningMethodHS256 /\ token.key = signingSecret

\* C12: a token issued at time t for user u carries subject u, issuedAt =
\* notBefore = t and expiresAt = t + 24h, so that issuedAt <= notBefore <=
\* expiresAt; it validates to subject u at every time in [t, t + 24h) and
\* at no time from t + 24h on.
C12_IssuedTokenWindow ==
    out.op = "generateUserToken" =>
        LET token == out.res
            t == out.in.now
        IN  /\ token.claims = [Sub |-> out.in.user, Iat |-> t, Nbf |-> t,
                               Exp |-> t + TokenExpirationTime]
            /\ token.claims.Iat <= token.claims.Nbf /\ token.claims.Nbf <= token.claims.Exp
            /\ \A now \in Instants :
                  LET v == validateUserToken(signingSecret, <<Tok(token)>>, now) IN
                  /\ t <= now /\ now < t + TokenExpirationTime =>
                        v.err = "" /\ v.claims.Sub = out.in.user
                  /\ t + TokenExpirationTime <= now => v.err # ""

(***************************************************************************)
(* Ownership of what Create stores.                                        *)
(***************************************************************************)
\* C13: after a Create by user U was answered 201, the stored entity's
\* GetUserID() is U's id, whatever the create-request constructor returned,
\* and no stored entity has an unset owner.
C13_CreatedIsOwnedByCreator ==
    /\ \A row \in rows : GetUserID(row) # 0
    /\ tracked.intact =>
          \E row \in rows : GetID(row) = tracked.id /\ GetUserID(row) = tracked.by

(***************************************************************************)
(* Identity scope of the queries.                                          *)
(***************************************************************************)
Found == out.res.err = NoErr

\* C14: whatever filter the caller configures or passes, every row
\* FindManyByUser and FindOneByUser return for userID has user_id = userID,
\* and every row FindOneByID returns for an id has that id; the same for
\* the Service's ListByUser and GetOne under its list and get filters.
C14_IdentityScope ==
    /\ out.op \in {"FindManyByUser", "ListByUser"} /\ Found =>
          \A item \in out.res.items : GetUserID(item) = out.in.userID
    /\ out.op = "FindOneByUser" /\ Found => GetUserID(out.res.item) = out.in.userID
    /\ out.op \in {"FindOneByID", "GetOne"} /\ Found => GetID(out.res.item) = out.in.itemID

(***************************************************************************)
(* Kinds of errors.                                                        *)
(***************************************************************************)
\* What the Store answers to the lookup GetOne makes.
StoreFindOne ==
    dbFindOne(rows, ComposeQuery("id", out.in.q.Filter), <<out.in.itemID>> \o out.in.q.Args,
              out.in.fail)
\* What the load stage answers to a request for the id GetOne was called for.
LoadStage == ItemContextMiddlewareDo(Idle, FormatUint(out.in.itemID), out.in.fail)

\* C15: the Store's not-found is still recognisable in what the Repository
\* and the Service return, under their messages, and the load stage answers
\* it NotFound; every other failure of the Store is not recognised as
\* not-found and is answered InternalError; a lookup of an id no row has
\* is answered NotFound.
C15_NotFoundStaysDistinct ==
    out.op = "GetOne" =>
        /\ (out.res.err # NoErr) = (StoreFindOne.err # NoErr)
        /\ out.res.err # NoErr =>
              /\ SubSeq(out.res.err, 1, 2) = <<"failed to get item", "failed to find one item">>
              /\ Is(out.res.err, ErrRecordNotFound) = (StoreFindOne.err = <<ErrRecordNotFound>>)
        /\ StoreFindOne.err = <<ErrRecordNotFound>> => LoadStage.resp = Only(ErrNotFound, {})
        /\ StoreFindOne.err # NoErr /\ StoreFindOne.err # <<ErrRecordNotFound>> =>
              LoadStage.resp = Only(ErrUnknown, {})
        /\ StoreFindOne.err = NoErr => LoadStage.resp = <<>>
        /\ ~out.in.fail /\ (\A row \in rows : GetID(row) # out.in.itemID)
              /\ out.in.q.Filter = <<>> => LoadStage.resp = Only(ErrNotFound, {})
        /\ out.in.fail => LoadStage.resp = Only(ErrUnknown, {})

C15_Witness ==
    /\ out.op = "GetOne"
    /\ ~out.in.fail
    /\ rows # {}
    /\ \A row \in rows : GetID(row) # out.in.itemID
    /\ Is(out.res.err, ErrRecordNotFound)
    /\ Len(out.res.err) > 1

(***************************************************************************)
(* Administrators.                                                         *)
(***************************************************************************)
\* C16: AdminRequired calls the wrapped handler only when the context
\* holds a resolved User whose Admin() is true, and then writes nothing;
\* with no User in the context, or a User whose Admin() is false, it
\* answers Unauthorized and does not call the wrapped handler.
C16_AdminOnly ==
    out.op = "AdminRequired" =>
        LET u == GetUserFromCtx(out.in.ctx) IN
        IF u.err = "" /\ u.user.ID \in Admins
        THEN out.res.pc = "handler" /\ out.res.resp = out.in.resp
        ELSE /\ out.res.pc = "done"
             /\ out.res.resp = Append(out.in.resp, Response(ErrUnauthorized, {}))

C16_Witness ==
    /\ out.op = "AdminRequired"
    /\ Authenticated(out.in)
    /\ Caller(out.in) \notin Admins
    /\ out.res.pc = "done"

(***************************************************************************)
(* Login.                                                                  *)
(***************************************************************************)
Matching == {a \in Accounts : a.username = out.in.username /\ a.password = out.in.password}

\* C17: LoginUser returns a token only when the credential lookup
\* succeeds, and that token's subject is the user looked up; when the
\* credentials match no user it returns an error and the empty string.
C17_LoginIssuesOnlyOnMatch ==
    out.op = "LoginUser" =>
        IF Matching = {}
        THEN out.res.err # NoErr /\ out.res.token = <<>>
        ELSE /\ out.res.err = NoErr
             /\ Len(out.res.token) = 1
             /\ out.res.token[1].v = generateUserToken(signingSecret, out.res.token[1].v.claims.Sub,
                                                       out.in.now)
             /\ \E a \in Matching : out.res.token[1].v.claims.Sub = a.user

C17_Witness ==
    /\ out.op = "LoginUser"
    /\ out.in.username \in {a.username : a \in Accounts}
    /\ Matching = {}
    /\ out.res.token = <<>>

(***************************************************************************)
(* Listing.                                                                *)
(***************************************************************************)
\* C18: ListByUser for user U returns exactly the stored entities whose
\* owner is U and that satisfy the Service's list filter; with the default
\* (empty) filter, all of U's entities and nothing else.
C18_ListExactlyOwnScoped ==
    out.op = "ListByUser" /\ Found =>
        out.res.items =
            {row \in rows : GetUserID(row) = out.in.userID /\ Satisfies(row, out.in.q)}

(***************************************************************************)
(* Startup.                                                                *)
(***************************************************************************)
\* C19: when JWT_SIGNING_SECRET or DATABASE_URL is absent or invalid, the
\* construction of the AuthService or of the Store fails and the
\* application never serves requests.
C19_BadConfigNeverServes ==
    app.phase = "serving" =>
        /\ env.JWT_SIGNING_SECRET # ""
        /\ Open(env.DATABASE_URL).err = ""

(***************************************************************************)
(* Routes added with WithDetailRoute.                                      *)
(***************************************************************************)
Guards == <<"AuthRequired", "ItemContextMiddleware", "UserAccessMiddleware">>

\* C20: the handler of a route added with WithDetailRoute is reached only
\* by a request that passed, in this order, AuthRequired with a resolved
\* User, the load stage with the entity stored and the ownership stage
\* with the access check passed, none of which wrote a response: the same
\* guards as the built-in detail routes.
C20_ExtensionRouteGuarded ==
    \A req \in Req :
        req.method = "Detail" /\ Passed(req) =>
            /\ IsPrefix(Guards, req.trace)
            /\ Authenticated(req) /\ HasItem(req) /\ ~Denied(req)
            /\ req.pc = "handler" => req.resp = <<>>
            /\ Len(req.resp) <= 1

C20_Witness ==
    \E req \in Req :
        /\ req.method = "Detail"
        /\ req.trace = Append(Guards, "Detail")
        /\ req.pc = "done"
        /\ GetUserID(Loaded(req)) = Caller(req)

(***************************************************************************)
(* Sessions.                                                               *)
(***************************************************************************)
\* C21: every operation of the Store that obtained a session has its
\* cancel deferred while it runs and has no timed scope open once it
\* returned, with or without an error; the scope it opened is derived from
\* the context it was called with, with a timeout of one second.
C21_CancelOnEveryExit ==
    out.op \in StoreOps /\ out.res.pc # "panic" =>
        /\ out.res.pc \in {"body", "exit"} =>
              /\ out.res.scopes = {[parent |-> out.in.ctx, timeout |-> TicksPerSecond]}
              /\ out.res.defers = <<[parent |-> out.in.ctx, timeout |-> TicksPerSecond]>>
        /\ out.res.pc = "returned" => out.res.scopes = {} /\ out.res.defers = <<>>

C21_Witness ==
    /\ out.op = "DropAll"
    /\ out.res.pc = "returned"
    /\ out.res.err # NoErr
    /\ out.in.ctx # <<>>

(***************************************************************************)
(* Request contexts.                                                       *)
(***************************************************************************)
Bindings(req, key) == {i \in DOMAIN req.ctx : req.ctx[i].key = key}

\* C22: within a request the user key and the controller's entity key are
\* each bound at most once and a binding once made stays readable; and,
\* however the requests in flight interleave, a request reads the User its
\* own AuthRequired resolved and, at or past its handler, the entity its
\* own load stage looked up, and Get answers with that entity.
C22_ContextConfined ==
    \A req \in Req :
        /\ Cardinality(Bindings(req, userContextKey)) <= 1
        /\ Cardinality(Bindings(req, ResourceContextKey(ctrl.contextKey))) <= 1
        /\ "AuthRequired" \in Stages(req) /\ req.auth = "ok" =>
              Authenticated(req) /\ Caller(req) = req.sub
        /\ Passed(req) /\ req.method \in DetailRoutes =>
              HasItem(req) /\ GetID(Loaded(req)) = req.id /\ Caller(req) = req.sub
        /\ req.method = "Get" /\ HandlerRan(req) =>
              \E item \in {Loaded(req)} : req.resp = Only(StatusOK, {ToDTO(item)})

C22_Witness ==
    \E a, b \in Req :
        /\ a.method = "Get" /\ HandlerRan(a)
        /\ b.pc = "handler" /\ b.auth = "ok"
        /\ a.sub # b.sub

(***************************************************************************)
(* The text of the repository's queries.                                   *)
(***************************************************************************)
ByKey == {"FindOneByID", "FindOneByUser", "FindManyByUser"}
KeyColumn(op) == IF op = "FindOneByID" THEN "id" ELSE "user_id"
KeyArg(op, in) == IF op = "FindOneByID" THEN in.itemID ELSE in.userID

\* C23: FindOneByID queries "table.id = ?" alone when the extra filter is
\* empty and "table.id = ? AND <filter>" otherwise, with the id followed by
\* the filter's arguments in order; FindOneByUser and FindManyByUser do the
\* same on "table.user_id = ?".  What each returns is what the Store
\* answers to that text with those arguments.
C23_ComposedQuery ==
    out.op \in ByKey =>
        LET col == KeyColumn(out.op)
            filter == out.in.q.Filter
            text == IF filter = <<>> THEN <<Atom(col)>> ELSE <<Atom(col), AND>> \o filter
            args == <<KeyArg(out.op, out.in)>> \o out.in.q.Args
        IN  /\ ComposeQuery(col, filter) = text
            /\ out.op = "FindManyByUser" =>
                  LET r == dbFindMany(rows, text, args, out.in.fail) IN
                  /\ out.res.items = r.items
                  /\ out.res.err = NoErr <=> r.err = NoErr
            /\ out.op # "FindManyByUser" =>
                  LET r == dbFindOne(rows, text, args, out.in.fail) IN
                  /\ out.res.item = r.item
                  /\ out.res.err = NoErr <=> r.err = NoErr

C23_Witness ==
    /\ out.op = "FindManyByUser"
    /\ Len(out.in.q.Args) = 2
    /\ out.res.err = NoErr
    /\ out.res.items # {}
    /\ out.res.items # {row \in rows : row.UserID = out.in.userID}

(***************************************************************************)
(* The steps of the handlers.                                              *)
(***************************************************************************)
\* Request r takes the step of its handler for the given route.
HandlerStep(r, method) ==
    /\ reqs[r].method = method
    /\ reqs[r].pc = "handler"
    /\ reqs'[r].pc = "done"

Answer(r) == Last(reqs'[r].resp)
Others(table, id) == {row \in table : row.ID # id}

UpdateFrame(r) ==
    LET id == GetID(Loaded(reqs[r])) IN
    /\ Others(rows', id) = Others(rows, id)
    /\ seq' = seq
    /\ Answer(r).status = StatusOK =>
          /\ reqs'[r].calls = reqs[r].calls + 1
          /\ \A row \in rows : row.ID = id =>
                \E n \in Updates : rows' = Others(rows, id) \cup {Merge(row, n)}
    /\ Answer(r).status = ErrInvalidRequest =>
          /\ reqs'[r].calls = reqs[r].calls
          /\ Store' = Store
    /\ Answer(r).status \in {StatusOK, ErrInvalidRequest, ErrUnknown}

\* C24: Update calls the service's UpdateOne with the id of the entity the
\* load stage stored, so that an Update that succeeds changes that entity
\* and no other; and an Update whose request constructor fails answers
\* InvalidRequest without calling UpdateOne and leaves the store as it was.
C24_UpdateFrame ==
    [][\A r \in DOMAIN reqs : HandlerStep(r, "Update") => UpdateFrame(r)]_vars

C24_Witness ==
    \E req \in Req :
        /\ req.method = "Update" /\ HandlerRan(req)
        /\ Last(req.resp).status = StatusOK
        /\ Others(rows, req.id) # {}
        /\ \E row \in rows : row.ID = req.id /\ row.Name = "b"

CreateOutcome(r) ==
    /\ Answer(r).status \in {ErrUnauthorized, ErrInvalidRequest, ErrUnknown, StatusCreated}
    /\ Answer(r).status \in {ErrUnauthorized, ErrInvalidRequest} =>
          /\ reqs'[r].calls = reqs[r].calls
          /\ Store' = Store
    /\ Answer(r).status = ErrUnknown <=> reqs'[r].fault
    /\ Answer(r).status = ErrUnknown =>
          /\ reqs'[r].calls = reqs[r].calls + 1
          /\ Store' = Store
    /\ Answer(r).status = StatusCreated =>
          /\ reqs'[r].calls = reqs[r].calls + 1
          /\ \E item \in NewItems :
                LET created == [item EXCEPT !.ID = seq] IN
                /\ rows' = rows \cup {created}
                /\ created \notin rows
                /\ Answer(r).body = {ToDTO(created)}

\* C25: Create answers InvalidRequest, without calling the service's
\* CreateOne, when the request constructor fails; InternalError when
\* CreateOne fails; and the created status with the DTO of the entity only
\* when CreateOne succeeded and the entity is in the store.
C25_CreateOutcomes ==
    [][\A r \in DOMAIN reqs : HandlerStep(r, "Create") => CreateOutcome(r)]_vars

C25_Witness ==
    \E req \in Req :
        /\ req.method = "Create" /\ HandlerRan(req) /\ Authenticated(req)
        /\ Last(req.resp).status = StatusCreated
        /\ \E row \in rows : row.ID = req.id /\ Last(req.resp).body = {ToDTO(row)}

\* C26: when two controllers run their load stages on one request, the
\* User AuthRequired attached stays readable whatever the entity keys are
\* (an entity key never equals the user key), and when the two context
\* keys differ each controller's ItemFromContext returns the entity its
\* own load stage stored.
C26_DistinctKeysDoNotCollide ==
    out.op = "Nested" =>
        LET cs == out.in.ctrls
            ctx == out.res.ctx
            stored == out.res.stored
        IN  /\ GetUserFromCtx(ctx) = [err |-> "", user |-> UserVal(out.in.user)]
            /\ \A i \in DOMAIN cs : ResourceContextKey(cs[i].contextKey) # userContextKey
            /\ cs[1].contextKey # cs[2].contextKey =>
                  \A i \in DOMAIN stored :
                      ItemFromContext(cs[i], ctx) = [err |-> "", item |-> stored[i]]

C26_Witness ==
    /\ out.op = "Nested"
    /\ out.res.pc = "handler"
    /\ out.in.ctrls[1].contextKey = 1
    /\ out.in.ctrls[2].contextKey = 0
    /\ out.res.stored[1] # out.res.stored[2]
    /\ ItemFromContext(out.in.ctrls[1], out.res.ctx).item = out.res.stored[1]

\* C27: a request the chain has finished with has exactly one response:
\* whichever stage failed wrote one error response and no later stage or
\* handler wrote a second one.
C27_ExactlyOneResponse ==
    \A req \in Req : req.pc = "done" => Len(req.resp) = 1

\* The non-negative identifiers a path parameter can denote.
Denotes(param, n) == Atoi(param).err = "" /\ Atoi(param).n = n /\ n >= 0

\* C28: the load stage calls GetOne only with the non-negative identifier
\* its path parameter denotes; a parameter that denotes none, such as
\* "-1", is answered InvalidRequest with no lookup, and is never turned
\* into another, wrapped-around, id that is then looked up.
C28_OnlyDenotedIdLookedUp ==
    \A req \in Req :
        "ItemContextMiddleware" \in Stages(req) =>
            /\ req.load # "" => Denotes(req.param, req.id)
            /\ req.param # <<>> /\ ~(\E n \in 0 .. 2 ^ UintBits : Denotes(req.param, n)) =>
                  /\ req.load = "" /\ req.calls = 0
                  /\ req.pc = "done" /\ Last(req.resp).status = ErrInvalidRequest

\* C29: a request whose Authorization header is not empty and is not
\* "Bearer " followed by a token (it lacks the prefix or is shorter than
\* it) is answered Unauthorized by AuthRequired and goes no further: the
\* request does not crash and what follows another prefix is not taken
\* for a token.
C29_OnlyBearerAccepted ==
    \A req \in Req :
        "AuthRequired" \in Stages(req) /\ req.auth = "malformed" =>
            /\ req.pc = "done"
            /\ req.trace = <<"AuthRequired">>
            /\ req.resp = Only(ErrUnauthorized, {})

\* The entity request r loaded is in the table.
Present(r, table) == \E row \in table : row.ID = GetID(Loaded(reqs[r]))

\* C30: with requests in flight on the same id, success is truthful: an
\* Update that answers 200 leaves the entity it loaded in the store, with
\* the DTO answered; a Delete that answers 204 removed an entity that was
\* in the store, so that of several Deletes of one entity at most one
\* answers 204; and an Update or Delete whose entity another request
\* removed after the load stage does not answer success.
C30_SuccessIsTruthful ==
    [][\A r \in DOMAIN reqs :
          /\ HandlerStep(r, "Update") /\ Answer(r).status = StatusOK =>
                /\ Present(r, rows)
                /\ \E row \in rows' :
                      row.ID = GetID(Loaded(reqs[r])) /\ Answer(r).body = {ToDTO(row)}
          /\ HandlerStep(r, "Delete") /\ Answer(r).status = StatusNoContent =>
                Present(r, rows) /\ ~Present(r, rows')]_vars

====
